---------------------------- MODULE Spec2Model ----------------------------
(***************************************************************************)
(* State-machine model of the streaming SHA-256 file hasher               *)
(* (src/native/sfd_hash.c) and its command-line driver                    *)
(* (src/native/sfd_hash_cli.c).                                           *)
(*                                                                         *)
(* One action per statement group of the C code; the program counter pc   *)
(* names the statement about to run.  The C library (fopen, fread, feof,  *)
(* ferror, fclose) and the digest library (the EVP calls) are the environment: *)
(* every call of theirs that can fail may fail, and fread may return any  *)
(* count the file still holds.                                            *)
(*                                                                         *)
(* Representation.                                                         *)
(*  - A file offset is a pair <<blk, off>> standing for blk*BufSize + off  *)
(*    with 0 <= off < BufSize, so that files past 2^32 bytes fit.          *)
(*  - A run of bytes is the extent [lo, hi) of file offsets it was read    *)
(*    from; a message is the sequence of extents fed to the digest, two    *)
(*    adjacent extents being written as one.  The message is the file's    *)
(*    bytes in order exactly when it is the single extent [0, size).       *)
(*  - uint64_t is four 16-bit limbs, least significant first.              *)
(***************************************************************************)
EXTENDS Integers, Sequences, FiniteSets, TLC

\* sizeof(buf): the staging buffer of the read loop.
BufSize == 65536

\* SFD_SHA256_LEN
SFD_SHA256_LEN == 32

\* EVP_MAX_MD_SIZE of the digest library: the size of md[].
EVP_MAX_MD_SIZE == 64

\* Largest file of the exhaustive runs, in whole buffers.
MaxBlocks == 2

\* Size in whole buffers of the large file (BigBlocks * BufSize = 2^32 bytes).
BigBlocks == 65536

\* Longest input of the hex encoder's own runs.
MaxHexLen == 3

--------------------------------------------------------------------------
(* 64-bit unsigned arithmetic on 16-bit limbs *)

LimbBase == 2^16

U64Zero == <<0, 0, 0, 0>>

\* x + BufSize: a count of buffers rather than of bytes.
U64AddBufSize(x, k) ==
    LET s1 == x[1] + BufSize
        s2 == x[2] + (s1 \div LimbBase)
    IN  <<s1 % LimbBase, s2 % LimbBase, x[3], x[4]>>

\* x + k modulo 2^32: the sum a 32-bit counter would hold.
U64AddWrap32(x, k) ==
    LET s1 == x[1] + k
        s2 == x[2] + (s1 \div LimbBase)
    IN  <<s1 % LimbBase, s2 % LimbBase, 0, 0>>

\* x + k modulo 2^64 (uint64_t addition), 0 <= k <= BufSize.
U64Add(x, k) ==
    LET s1 == x[1] + k
        s2 == x[2] + (s1 \div LimbBase)
        s3 == x[3] + (s2 \div LimbBase)
        s4 == x[4] + (s3 \div LimbBase)
    IN  <<s1 % LimbBase, s2 % LimbBase, s3 % LimbBase, s4 % LimbBase>>

--------------------------------------------------------------------------
(* File offsets *)

PosZero == <<0, 0>>

\* p + k for 0 <= k <= BufSize.
PosAdd(p, k) ==
    LET o == p[2] + k
    IN  <<p[1] + (o \div BufSize), o % BufSize>>

\* The offset blk*BufSize + off as a uint64_t (BufSize is one limb).
PosToU64(p) == <<p[2], p[1] % LimbBase, (p[1] \div LimbBase) % LimbBase, 0>>

\* min(BufSize, size - p): what one fread of BufSize bytes can return at p.
Available(size, p) ==
    IF size[1] - p[1] >= 2 THEN BufSize
    ELSE LET d == (size[1] - p[1]) * BufSize + size[2] - p[2]
         IN  IF d > BufSize THEN BufSize ELSE IF d < 0 THEN 0 ELSE d

--------------------------------------------------------------------------
(* Messages: the bytes fed to the digest context *)

\* The message m followed by the len bytes read from offset lo.
Feed(m, lo, len) ==
    IF len = 0 THEN m
    ELSE IF m # <<>> /\ m[Len(m)][2] = lo
         THEN [m EXCEPT ![Len(m)] = <<m[Len(m)][1], PosAdd(lo, len)>>]
         ELSE Append(m, <<lo, PosAdd(lo, len)>>)

\* The bytes of a whole file of the given size, in order.
WholeFile(size) == IF size = PosZero THEN <<>> ELSE << <<PosZero, size>> >>


\* The number of bytes of message m, as an offset.
RECURSIVE MsgLen(_)
MsgLen(m) ==
    IF m = <<>> THEN PosZero
    ELSE LET e    == m[Len(m)]
             rest == MsgLen(SubSeq(m, 1, Len(m) - 1))
             o    == rest[2] + e[2][2] - e[1][2]
         IN  <<rest[1] + e[2][1] - e[1][1] + (IF o < 0 THEN -1 ELSE o \div BufSize),
               (o + BufSize) % BufSize>>

--------------------------------------------------------------------------
(* The digest library's result.  SHA-256 itself is the library's; here it  *)
(* is a fixed function of the message that yields outLen byte values.      *)

MsgKey(m) ==
    IF m = <<>> THEN 227
    ELSE LET e == m[Len(m)]
         IN  (Len(m) * 31 + e[1][1] * 3 + e[1][2] * 5 + e[2][1] * 7
              + (e[2][2] % 4096) * 11 + (e[2][2] \div 4096) * 13 + 19) % 65521

DigestBytes(m, outLen) ==
    [i \in 1..outLen |-> (MsgKey(m) * (2 * i + 1) + i * i * 7 + (MsgKey(m) \div 256)) % 256]

--------------------------------------------------------------------------
(* sfd_hex_encode_lower *)

HexDigits == <<"0", "1", "2", "3", "4", "5", "6", "7",
               "8", "9", "a", "b", "c", "d", "e", "f">>

UpperHexDigits == <<"0", "1", "2", "3", "4", "5", "6", "7",
                    "8", "9", "A", "B", "C", "D", "E", "F">>

\* The terminating '\0' of a C string.
NUL == "NUL"

\* The encoder with an uppercase digit table.
HexEncodeUpper(bytes, len) ==
    [k \in 1..(2 * len + 1) |->
        IF k = 2 * len + 1 THEN NUL
        ELSE IF k % 2 = 1
             THEN UpperHexDigits[((bytes[(k + 1) \div 2] \div 16) % 16) + 1]
             ELSE UpperHexDigits[(bytes[k \div 2] % 16) + 1]]

\* out_hex after sfd_hex_encode_lower(bytes, len, out_hex): the characters
\* written, out_hex[0] .. out_hex[2*len], at indices 1 .. 2*len+1.
sfd_hex_encode_lower(bytes, len) ==
    [k \in 1..(2 * len + 1) |->
        IF k = 2 * len + 1 THEN NUL
        ELSE IF k % 2 = 1
             THEN HexDigits[((bytes[(k + 1) \div 2] \div 16) % 16) + 1]
             ELSE HexDigits[(bytes[k \div 2] % 16) + 1]]

\* What printf's %s prints of a char array: the characters before the first NUL.
RECURSIVE CStr(_)
CStr(a) ==
    IF a = <<>> \/ a[1] = NUL THEN <<>> ELSE <<a[1]>> \o CStr(Tail(a))

\* The line printf writes: the format's literal text around %s and %llu.
JsonLine(hexstr, count) ==
    <<"{\"algorithm\":\"sha256\",\"hash\":\"", hexstr, "\",\"bytes\":", count, "}\n">>

--------------------------------------------------------------------------
VARIABLES
    argc,        \* main's argc
    file,        \* what argv[1] names: [kind, size]
    ideal,       \* TRUE: every library call succeeds and fread fills the buffer
    pc,          \* the statement about to run
    f,           \* the FILE stream: [state, pos, eof, err]
    ctx,         \* the digest context: [state, msg]
    buf,         \* the staging buffer: <<offset its bytes were read from, count>>
    n,           \* fread's last return value
    out_bytes,   \* *out_bytes, main's bytes
    md,          \* md[0 .. md_len-1] as written by the finalization
    md_len,
    ret,         \* the value to return once the resources are released
    rc,          \* sfd_sha256_file's return value, -1 before it returns
    hash,        \* main's hash[], the callee's out_hash
    hash0,       \* hash[] as it was when main started
    hex,         \* main's hex[]
    stdout,
    stderr,
    exitStatus,  \* main's return value, -1 while it runs
    calls,       \* how often each library function has been called
    faults,      \* the library calls that have failed
    shortReads,  \* freads that returned a short count with neither indicator set
    hexIn,       \* the hex encoder's own runs: its input
    hexOut       \* and its output

vars == <<argc, file, ideal, pc, f, ctx, buf, n, out_bytes, md, md_len, ret, rc,
          hash, hash0, hex, stdout, stderr, exitStatus, calls, faults,
          shortReads, hexIn, hexOut>>

\* A short count with neither indicator set is something fread may return
\* at most this often in one run.
MaxShortReads == 2

\* main's hash[] is uninitialized: any 32 bytes.
Garbage == {[i \in 1..SFD_SHA256_LEN |-> 0], [i \in 1..SFD_SHA256_LEN |-> 165]}

FileSizes == {<<b, o>> : b \in 0..MaxBlocks, o \in {0, 1, BufSize - 1}}

NoCalls == [fopen |-> 0, fclose |-> 0, ctx_new |-> 0, ctx_free |-> 0,
            init |-> 0, final |-> 0, fread |-> 0, update |-> 0]

Start ==
    /\ f = [state |-> "none", pos |-> PosZero, eof |-> FALSE, err |-> FALSE]
    /\ ctx = [state |-> "none", msg |-> <<>>]
    /\ buf = <<PosZero, 0>>
    /\ n = 0
    /\ out_bytes = U64Zero
    /\ md = <<>>
    /\ md_len = 0
    /\ ret = -1
    /\ rc = -1
    /\ hash \in Garbage
    /\ hash0 = hash
    /\ hex = <<>>
    /\ stdout = <<>>
    /\ stderr = <<>>
    /\ exitStatus = -1
    /\ calls = NoCalls
    /\ faults = {}
    /\ shortReads = 0
    /\ hexOut = <<>>

Init ==
    /\ argc \in {1, 2, 3}
    /\ file \in [kind : {"missing"}, size : {PosZero}]
                \cup [kind : {"regular"}, size : FileSizes]
    /\ ideal \in BOOLEAN
    /\ pc = "main"
    /\ hexIn = <<>>
    /\ Start

\* A run on a file of 2^32 + 1 bytes, with a library that does not fail.
InitLarge ==
    /\ argc = 2
    /\ file = [kind |-> "regular", size |-> <<BigBlocks, 1>>]
    /\ ideal = TRUE
    /\ pc = "main"
    /\ hexIn = <<>>
    /\ Start

\* Byte values of the encoder's own runs: both nibbles below and above 9.
SampleBytes == {0, 9, 10, 92, 171, 255}

RECURSIVE SeqsUpTo(_, _)
SeqsUpTo(S, k) ==
    IF k = 0 THEN {<<>>}
    ELSE LET shorter == SeqsUpTo(S, k - 1)
         IN  shorter \cup {Append(q, x) : q \in shorter, x \in S}

\* A call of sfd_hex_encode_lower on its own, on any short byte sequence.
HexInit ==
    /\ argc = 2
    /\ file = [kind |-> "missing", size |-> PosZero]
    /\ ideal = FALSE
    /\ pc = "hex"
    /\ hexIn \in SeqsUpTo(SampleBytes, MaxHexLen)
    /\ Start


--------------------------------------------------------------------------
(* The decisions of the code *)

\* fread's possible return values when avail bytes (at most BufSize) remain.
ReadCounts(avail) == {c \in {0, 1, BufSize - 1, BufSize, avail} : c <= avail}

\* Only full buffers go to the digest.
AfterReadFullOnly(cnt) == IF cnt = BufSize THEN "update" ELSE "check"

\* "if (n > 0)": whether the bytes just read go to the digest.
AfterRead(cnt) == IF cnt > 0 THEN "update" ELSE "check"

\* The loop without its ferror test.
LoopCheckNoFerror(cnt, eof, err) ==
    IF cnt < BufSize /\ eof THEN "break" ELSE "again"

\* The loop taking any short read without an error for the end of the file.
LoopCheckShortIsEnd(cnt, eof, err) ==
    IF cnt < BufSize
    THEN IF err /\ ~eof THEN "error" ELSE "break"
    ELSE "again"

\* The loop looking at the indicators only after a read of 0 bytes.
LoopCheckOnEmpty(cnt, eof, err) ==
    IF cnt = 0
    THEN IF eof THEN "break" ELSE IF err THEN "error" ELSE "again"
    ELSE "again"

\* "if (n < sizeof(buf)) { if (feof(f)) break; if (ferror(f)) ... return 2; }"
LoopCheck(cnt, eof, err) ==
    IF cnt < BufSize
    THEN IF eof THEN "break" ELSE IF err THEN "error" ELSE "again"
    ELSE "again"

\* Every failure return closing the file and nothing else.
FirstReleaseCloseOnly(site) == "fclose"

\* The first release of a failure return: fclose alone when no context
\* exists yet, EVP_MD_CTX_free then fclose otherwise.
FirstRelease(site) == IF site = "ctx_new" THEN "fclose" ELSE "free"

\* main treating only the I/O failure code as a failure.
IsFailureOnlyIo(code) == code = 2

\* "if (rc != 0)" in main.
IsFailure(code) == code # 0

\* main with one exit status for every failure.
FailureExitGeneric(code) == 1

\* main's exit status for a failed call: "if (rc == 2) ... return 2; ... return 3;"
FailureExit(code) == IF code = 2 THEN 2 ELSE 3

\* "if (md_len != SFD_SHA256_LEN) return 3;"
LenAccepted(len) == len = SFD_SHA256_LEN

--------------------------------------------------------------------------
(* main *)

harness == <<hexIn, hexOut>>
inputs  == <<argc, file, ideal, hash0>>
hasher  == <<f, ctx, buf, n, out_bytes, md, md_len, ret, calls, faults, shortReads>>

\* main: "if (argc != 2) { usage(argv[0]); return 1; }"
Main_ArgCheck ==
    /\ pc = "main"
    /\ IF argc # 2
       THEN /\ stderr' = Append(stderr, "Usage: <prog> <file-path>\n")
            /\ exitStatus' = 1
            /\ pc' = "exit"
       ELSE /\ pc' = "sfd_entry"
            /\ UNCHANGED <<stderr, exitStatus>>
    /\ UNCHANGED <<inputs, hasher, harness, rc, hash, hex, stdout>>

\* main after the call: the failure messages and exit statuses.
Main_Handle ==
    /\ pc = "sfd_ret"
    /\ IF IsFailure(rc)
       THEN /\ stderr' = Append(stderr, IF FailureExit(rc) = 2
                                        THEN "File I/O error\n"
                                        ELSE "Hashing error\n")
            /\ exitStatus' = FailureExit(rc)
            /\ pc' = "exit"
       ELSE /\ pc' = "encode"
            /\ UNCHANGED <<stderr, exitStatus>>
    /\ UNCHANGED <<inputs, hasher, harness, rc, hash, hex, stdout>>

\* main: sfd_hex_encode_lower(hash, SFD_SHA256_LEN, hex)
Main_Encode ==
    /\ pc = "encode"
    /\ hex' = sfd_hex_encode_lower(hash, SFD_SHA256_LEN)
    /\ pc' = "print"
    /\ UNCHANGED <<inputs, hasher, harness, rc, hash, stdout, stderr, exitStatus>>

\* main: printf(...); return 0;
Main_Print ==
    /\ pc = "print"
    /\ stdout' = Append(stdout, JsonLine(CStr(hex), out_bytes))
    /\ exitStatus' = 0
    /\ pc' = "exit"
    /\ UNCHANGED <<inputs, hasher, harness, rc, hash, hex, stderr>>

--------------------------------------------------------------------------
(* sfd_sha256_file *)

caller == <<hash, hex, stdout, stderr, exitStatus>>

Called(name) == [calls EXCEPT ![name] = @ + 1]

\* The NULL checks (main passes no NULL) and "*out_bytes = 0".
Sfd_Entry ==
    /\ pc = "sfd_entry"
    /\ out_bytes' = U64Zero
    /\ pc' = "fopen"
    /\ UNCHANGED <<inputs, harness, caller, rc, f, ctx, buf, n, md, md_len, ret,
                   calls, faults, shortReads>>

\* fopen(path, "rb"); "if (!f) return 2;"
Sfd_Fopen ==
    /\ pc = "fopen"
    /\ calls' = Called("fopen")
    /\ IF file.kind = "regular"
       THEN /\ f' = [state |-> "open", pos |-> PosZero, eof |-> FALSE, err |-> FALSE]
            /\ pc' = "ctx_new"
            /\ UNCHANGED <<rc, faults>>
       ELSE /\ faults' = faults \cup {"open"}
            /\ rc' = 2
            /\ pc' = "sfd_ret"
            /\ UNCHANGED f
    /\ UNCHANGED <<inputs, harness, caller, ctx, buf, n, out_bytes, md, md_len, ret,
                   shortReads>>

\* EVP_MD_CTX_new(); "if (!ctx) { fclose(f); return 3; }"
Sfd_CtxNew ==
    /\ pc = "ctx_new"
    /\ calls' = Called("ctx_new")
    /\ \E ok \in IF ideal THEN {TRUE} ELSE BOOLEAN :
          IF ok
          THEN /\ ctx' = [state |-> "new", msg |-> <<>>]
               /\ pc' = "init"
               /\ UNCHANGED <<ret, faults>>
          ELSE /\ faults' = faults \cup {"ctx_new"}
               /\ ret' = 3
               /\ pc' = FirstRelease("ctx_new")
               /\ UNCHANGED ctx
    /\ UNCHANGED <<inputs, harness, caller, rc, f, buf, n, out_bytes, md, md_len,
                   shortReads>>

\* EVP_DigestInit_ex(ctx, EVP_sha256(), NULL); on failure free, close, return 3.
Sfd_Init ==
    /\ pc = "init"
    /\ calls' = Called("init")
    /\ \E ok \in IF ideal THEN {TRUE} ELSE BOOLEAN :
          IF ok
          THEN /\ ctx' = [ctx EXCEPT !.state = "init"]
               /\ pc' = "fread"
               /\ UNCHANGED <<ret, faults>>
          ELSE /\ faults' = faults \cup {"init"}
               /\ ret' = 3
               /\ pc' = FirstRelease("init")
               /\ UNCHANGED ctx
    /\ UNCHANGED <<inputs, harness, caller, rc, f, buf, n, out_bytes, md, md_len,
                   shortReads>>

\* n = fread(buf, 1, sizeof(buf), f).  The library returns cnt bytes, at most
\* what the file still holds, and leaves the end-of-file indicator (e) and
\* the error indicator (r) set or clear:
\*   a full count is a success and sets neither;
\*   end-of-file is set only once every byte of the file has been returned;
\*   a count of 0 comes with at least one of them;
\*   the two indicators are independent, so a short read may set both;
\*   a short count with neither happens at most MaxShortReads times.
Sfd_Fread ==
    /\ pc = "fread"
    /\ LET avail == Available(file.size, f.pos)
       IN  \E cnt \in ReadCounts(avail), e \in BOOLEAN, r \in BOOLEAN :
              /\ cnt = BufSize => ~e /\ ~r
              /\ e => cnt = avail /\ avail < BufSize
              /\ cnt = 0 => e \/ r
              /\ (cnt < BufSize /\ ~e /\ ~r) => shortReads < MaxShortReads
              /\ ideal => cnt = avail /\ ~r /\ (e <=> cnt < BufSize)
              /\ n' = cnt
              /\ buf' = IF cnt > 0 THEN <<f.pos, cnt>> ELSE buf
              /\ f' = [f EXCEPT !.pos = PosAdd(@, cnt),
                                !.eof = @ \/ e,
                                !.err = @ \/ r]
              /\ faults' = IF r THEN faults \cup {"read"} ELSE faults
              /\ shortReads' = IF cnt < BufSize /\ ~e /\ ~r
                               THEN shortReads + 1 ELSE shortReads
              /\ pc' = AfterRead(cnt)
    /\ calls' = Called("fread")
    /\ UNCHANGED <<inputs, harness, caller, rc, ctx, out_bytes, md, md_len, ret>>

\* EVP_DigestUpdate(ctx, buf, n), then "*out_bytes += (uint64_t)n"; on
\* failure free, close, return 3.
Sfd_Update ==
    /\ pc = "update"
    /\ calls' = Called("update")
    /\ \E ok \in IF ideal THEN {TRUE} ELSE BOOLEAN :
          IF ok
          THEN /\ ctx' = [ctx EXCEPT !.msg = Feed(@, buf[1], n)]
               /\ out_bytes' = U64Add(out_bytes, n)
               /\ pc' = "check"
               /\ UNCHANGED <<ret, faults>>
          ELSE /\ faults' = faults \cup {"update"}
               /\ ret' = 3
               /\ pc' = FirstRelease("update")
               /\ UNCHANGED <<ctx, out_bytes>>
    /\ UNCHANGED <<inputs, harness, caller, rc, f, buf, n, md, md_len, shortReads>>

\* The end of the loop body: break on end-of-file, return 2 on a read
\* error (after free and close), or read again.
Sfd_Check ==
    /\ pc = "check"
    /\ LET what == LoopCheck(n, f.eof, f.err)
       IN  /\ pc' = CASE what = "break" -> "final"
                      [] what = "error" -> FirstRelease("fread")
                      [] OTHER          -> "fread"
           /\ ret' = IF what = "error" THEN 2 ELSE ret
    /\ UNCHANGED <<inputs, harness, caller, rc, f, ctx, buf, n, out_bytes, md, md_len,
                   calls, faults, shortReads>>

\* EVP_DigestFinal_ex(ctx, md, &md_len); on failure free, close, return 3.
Sfd_Final ==
    /\ pc = "final"
    /\ calls' = Called("final")
    /\ \E ok \in IF ideal THEN {TRUE} ELSE BOOLEAN,
          len \in IF ideal THEN {SFD_SHA256_LEN}
                  ELSE {SFD_SHA256_LEN - 12, SFD_SHA256_LEN, EVP_MAX_MD_SIZE} :
          IF ok
          THEN /\ ctx' = [ctx EXCEPT !.state = "final"]
               /\ md' = DigestBytes(ctx.msg, len)
               /\ md_len' = len
               /\ faults' = IF len # SFD_SHA256_LEN THEN faults \cup {"len"} ELSE faults
               /\ pc' = "free"
               /\ UNCHANGED ret
          ELSE /\ len = SFD_SHA256_LEN
               /\ faults' = faults \cup {"final"}
               /\ ret' = 3
               /\ pc' = FirstRelease("final")
               /\ UNCHANGED <<ctx, md, md_len>>
    /\ UNCHANGED <<inputs, harness, caller, rc, f, buf, n, out_bytes, shortReads>>

\* EVP_MD_CTX_free(ctx)
Sfd_Free ==
    /\ pc = "free"
    /\ calls' = Called("ctx_free")
    /\ ctx' = [ctx EXCEPT !.state = "freed"]
    /\ pc' = "fclose"
    /\ UNCHANGED <<inputs, harness, caller, rc, f, buf, n, out_bytes, md, md_len, ret,
                   faults, shortReads>>

\* fclose(f), and the return that follows it on a failure path.
Sfd_Fclose ==
    /\ pc = "fclose"
    /\ calls' = Called("fclose")
    /\ f' = [f EXCEPT !.state = "closed"]
    /\ IF ret = -1
       THEN pc' = "lencheck" /\ UNCHANGED rc
       ELSE pc' = "sfd_ret" /\ rc' = ret
    /\ UNCHANGED <<inputs, harness, caller, ctx, buf, n, out_bytes, md, md_len, ret,
                   faults, shortReads>>

\* "if (md_len != SFD_SHA256_LEN) return 3;"
Sfd_LenCheck ==
    /\ pc = "lencheck"
    /\ IF LenAccepted(md_len)
       THEN pc' = "memcpy" /\ UNCHANGED rc
       ELSE pc' = "sfd_ret" /\ rc' = 3
    /\ UNCHANGED <<inputs, harness, caller, f, ctx, buf, n, out_bytes, md, md_len, ret,
                   calls, faults, shortReads>>

\* memcpy(out_hash, md, SFD_SHA256_LEN); return 0;
Sfd_Memcpy ==
    /\ pc = "memcpy"
    /\ hash' = [i \in 1..SFD_SHA256_LEN |-> md[i]]
    /\ rc' = 0
    /\ pc' = "sfd_ret"
    /\ UNCHANGED <<inputs, harness, hasher, hex, stdout, stderr, exitStatus>>

--------------------------------------------------------------------------
Next ==
    \/ Main_ArgCheck
    \/ Sfd_Entry
    \/ Sfd_Fopen
    \/ Sfd_CtxNew
    \/ Sfd_Init
    \/ Sfd_Fread
    \/ Sfd_Update
    \/ Sfd_Check
    \/ Sfd_Final
    \/ Sfd_Free
    \/ Sfd_Fclose
    \/ Sfd_LenCheck
    \/ Sfd_Memcpy
    \/ Main_Handle
    \/ Main_Encode
    \/ Main_Print

Spec == Init /\ [][Next]_vars

\* The same program, also run on the large files.
SpecLarge == (Init \/ InitLarge) /\ [][Next]_vars

\* sfd_hex_encode_lower(hexIn, len, hexOut) called on its own.
Hex_Encode ==
    /\ pc = "hex"
    /\ hexOut' = sfd_hex_encode_lower(hexIn, Len(hexIn))
    /\ pc' = "hex_done"
    /\ UNCHANGED <<inputs, hasher, caller, rc, hexIn>>

NextHex ==
    \/ Next
    \/ Hex_Encode

\* The program, and the encoder on its own.
SpecHex == (Init \/ HexInit) /\ [][NextHex]_vars

\* The program keeps running until main returns.
FairSpec == Init /\ [][Next]_vars /\ WF_vars(Next)


--------------------------------------------------------------------------
(* Properties *)

\* sfd_sha256_file has returned.
Returned == rc # -1

\* The file was opened and its stream handed to the read loop.
Opened == f.state # "none"

\* C1: whenever sfd_sha256_file returns 0, *out_bytes is the file's size
\* and the bytes fed to the digest are the file's bytes, each once and in
\* order, however fread split them; between two reads the bytes fed are
\* the bytes read so far and *out_bytes is their number, at and past 2^32.
C1_SuccessHashesWholeFile ==
    /\ rc = 0 =>
          /\ out_bytes = PosToU64(file.size)
          /\ ctx.msg = WholeFile(file.size)
    /\ pc \in {"fread", "check", "final"} =>
          /\ out_bytes = PosToU64(f.pos)
          /\ ctx.msg = WholeFile(f.pos)

\* C1 happens: a file of more than 2^32 bytes has been hashed.
C1_Witness ==
    /\ rc = 0
    /\ file.size = <<BigBlocks, 1>>
    /\ out_bytes = <<1, 0, 1, 0>>

\* A read left the error indicator set, the end-of-file indicator clear,
\* and the update of the bytes it returned did not fail: the case in which
\* the loop reaches its ferror test.
ReadErrorSeen == f.err /\ ~f.eof /\ "update" \notin faults

DigestFaults == {"ctx_new", "init", "update", "final", "len"}

\* C2 as stated: exit status 2 exactly when the open or any read failed.
C2_Original ==
    pc = "exit" =>
        /\ exitStatus = 1 <=> argc # 2
        /\ exitStatus = 2 <=> ("open" \in faults \/ "read" \in faults)
        /\ exitStatus = 3 <=> faults \cap DigestFaults # {}
        /\ exitStatus = 0 <=> rc = 0

\* C2 (amended): when main returns, the status is 1 exactly when
\* argc # 2, and then no library call was made; 2 with "File I/O error"
\* exactly when the open failed or a read error reached the loop's ferror
\* test; 3 with "Hashing error" exactly when a digest call failed or the
\* output length was not 32; 0 exactly when sfd_sha256_file returned 0.
C2_ExitStatus ==
    pc = "exit" =>
        /\ exitStatus \in {0, 1, 2, 3}
        /\ exitStatus = 1 <=> argc # 2
        /\ argc # 2 => calls = NoCalls /\ rc = -1
        /\ exitStatus = 2 <=> ("open" \in faults \/ ReadErrorSeen)
        /\ exitStatus = 2 => stderr = <<"File I/O error\n">>
        /\ exitStatus = 3 <=> faults \cap DigestFaults # {}
        /\ exitStatus = 3 => stderr = <<"Hashing error\n">>
        /\ exitStatus = 0 <=> rc = 0
        /\ rc # 1

\* C2 happens: a read error ended the run with status 2.
C2_Witness ==
    /\ pc = "exit"
    /\ exitStatus = 2
    /\ "read" \in faults
    /\ calls.update >= 1

\* C3: on a failure path (argc # 2, or sfd_sha256_file returned non-zero)
\* standard output stays empty, the exit status is 1, 2 or 3 and hash[] is
\* as the caller left it; a line is on standard output only after
\* sfd_sha256_file returned 0, and then there is exactly one.
C3_NoOutputOnFailure ==
    /\ (Returned /\ rc # 0) => hash = hash0 /\ stdout = <<>>
    /\ ~Returned => hash = hash0 /\ stdout = <<>>
    /\ (pc = "exit" /\ (argc # 2 \/ rc # 0)) =>
           exitStatus \in {1, 2, 3} /\ stdout = <<>>
    /\ stdout # <<>> => rc = 0 /\ Len(stdout) = 1 /\ exitStatus = 0
    /\ (pc = "exit" /\ exitStatus = 0) => Len(stdout) = 1

\* C3 happens: a digest failure after the whole file was read.
C3_Witness ==
    /\ pc = "exit"
    /\ exitStatus = 3
    /\ "len" \in faults
    /\ md # <<>>
    /\ stdout = <<>>

\* C4: once sfd_sha256_file has returned, a file it opened is closed and
\* was closed once, a context it created is freed and was freed once, and
\* nothing it did not acquire was released; it never opens a second file
\* or creates a second context.
C4_ResourcesReleased ==
    /\ calls.fopen <= 1
    /\ calls.ctx_new <= 1
    /\ calls.fclose <= (IF Opened THEN 1 ELSE 0)
    /\ calls.ctx_free <= (IF ctx.state # "none" THEN 1 ELSE 0)
    /\ Returned =>
          /\ Opened => f.state = "closed" /\ calls.fclose = 1
          /\ ctx.state # "none" => ctx.state = "freed" /\ calls.ctx_free = 1

\* C4 happens: a return on the read-error path with both resources held.
C4_Witness ==
    /\ Returned
    /\ rc = 2
    /\ "read" \in faults
    /\ calls.fclose = 1
    /\ calls.ctx_free = 1


\* C5 as stated: once a read has left the error indicator set, whatever the
\* end-of-file indicator, the call returns 2, or 3 if the update of that
\* read's bytes failed.
C5_Original ==
    (Returned /\ f.err) => (rc = 2 \/ (rc = 3 /\ "update" \in faults))

\* Where the call stands once it has returned.
C5_ErrorReturn ==
    (Returned /\ f.err /\ ~f.eof) =>
        /\ rc # 0
        /\ "update" \in faults => rc = 3
        /\ "update" \notin faults => rc = 2

\* C5 (amended): once a read has left the error indicator set and the
\* end-of-file indicator clear, no further read is issued and the call
\* returns 2, or 3 if the update of that read's bytes failed; a read that
\* leaves both indicators set issues no further read either, but takes the
\* end-of-file exit.
C5_ReadErrorReported ==
    /\ []C5_ErrorReturn
    /\ [][f.err => calls'.fread = calls.fread]_vars

\* C5 happens: a read error after two clean reads, reported as 2.
C5_Witness ==
    /\ Returned
    /\ rc = 2
    /\ f.err
    /\ ~f.eof
    /\ calls.fread >= 3

\* C6: when sfd_sha256_file returns 2 after a read that returned some but
\* not all requested bytes together with an error, those bytes are in the
\* digest and in the count: *out_bytes is the number of bytes fed, and the
\* bytes fed are all the bytes the reads returned.
C6_PartialBytesCounted ==
    (Returned /\ rc = 2 /\ f.err /\ 0 < n /\ n < BufSize) =>
        /\ ctx.msg = WholeFile(f.pos)
        /\ PosAdd(buf[1], n) = f.pos /\ buf[2] = n
        /\ out_bytes = PosToU64(MsgLen(ctx.msg))
        /\ calls.update = calls.fread

\* C6 happens: a partial failing read following a full one.
C6_Witness ==
    /\ Returned
    /\ rc = 2
    /\ n = BufSize - 1
    /\ f.pos = <<1, BufSize - 1>>
    /\ out_bytes = <<BufSize - 1, 1, 0, 0>>

\* A fault-free run on a file of a whole number of buffers.
WholeBuffers == ideal /\ argc = 2 /\ file.kind = "regular" /\ file.size[2] = 0

C7_ExactMultiple ==
    /\ (WholeBuffers /\ pc = "exit") => rc = 0
    /\ (WholeBuffers /\ rc = 0) =>
          /\ calls.fread = file.size[1] + 1
          /\ calls.update = file.size[1]
          /\ n = 0
          /\ f.eof
          /\ out_bytes = PosToU64(file.size)

\* The loop leaves "check" for another read exactly after a full read or a
\* short read with neither indicator set.
C7_LoopDecision ==
    pc = "check" => (pc' = "fread" <=> (n = BufSize \/ (~f.eof /\ ~f.err)))

\* C7: the run ends; the loop reads again exactly after a full read or a
\* short read with neither indicator set; a fault-free file of k whole
\* buffers takes k full reads and one read of 0 bytes, k updates, and
\* returns 0 with *out_bytes = k * 65536.
C7_LoopTerminates ==
    /\ <>(pc = "exit")
    /\ [][C7_LoopDecision]_vars
    /\ []C7_ExactMultiple

\* C7 happens: two whole buffers, three reads.
C7_Witness ==
    /\ WholeBuffers
    /\ pc = "exit"
    /\ file.size = <<2, 0>>
    /\ calls.fread = 3
    /\ calls.update = 2

\* What a run prints and returns, from the arguments and the file alone.
ExpectedOutcome ==
    IF argc # 2 THEN <<1, <<>>>>
    ELSE IF file.kind # "regular" THEN <<2, <<>>>>
    ELSE <<0, <<JsonLine(CStr(sfd_hex_encode_lower(
                      DigestBytes(WholeFile(file.size), SFD_SHA256_LEN),
                      SFD_SHA256_LEN)),
                  PosToU64(file.size))>>>>

\* C8: in every run in which no library call on the opened file fails,
\* standard output and the exit status are a function of the arguments and
\* the file alone, whatever counts the reads returned; so two such runs on
\* the same file agree.
C8_OutputDependsOnFileOnly ==
    (pc = "exit" /\ faults \subseteq {"open"}) =>
        <<exitStatus, stdout>> = ExpectedOutcome

\* C8 happens: a file hashed through two short reads.
C8_Witness ==
    /\ pc = "exit"
    /\ faults = {}
    /\ shortReads = 2
    /\ exitStatus = 0
    /\ file.size = <<1, 1>>

LowerHexChars == {"0", "1", "2", "3", "4", "5", "6", "7",
                  "8", "9", "a", "b", "c", "d", "e", "f"}

\* The value of a hexadecimal digit character.
HexValue(c) ==
    CASE c = "0" -> 0 [] c = "1" -> 1 [] c = "2" -> 2 [] c = "3" -> 3
      [] c = "4" -> 4 [] c = "5" -> 5 [] c = "6" -> 6 [] c = "7" -> 7
      [] c = "8" -> 8 [] c = "9" -> 9 [] c = "a" -> 10 [] c = "b" -> 11
      [] c = "c" -> 12 [] c = "d" -> 13 [] c = "e" -> 14 [] c = "f" -> 15
      [] OTHER -> -1

\* out is the lowercase hex encoding of the bytes in, NUL-terminated.
IsLowerHexOf(out, in) ==
    /\ Len(out) = 2 * Len(in) + 1
    /\ out[Len(out)] = NUL
    /\ \A i \in 1..Len(in) :
          /\ out[2 * i - 1] \in LowerHexChars
          /\ out[2 * i] \in LowerHexChars
          /\ HexValue(out[2 * i - 1]) * 16 + HexValue(out[2 * i]) = in[i]

\* C9: the encoder writes two lowercase hex digits per byte, high nibble
\* first, then one NUL and nothing else; the hash string main prints is 64
\* characters from 0-9a-f, the encoding of hash[].
C9_HexEncoding ==
    /\ pc = "hex_done" => IsLowerHexOf(hexOut, hexIn)
    /\ pc \in {"print", "exit"} /\ rc = 0 => IsLowerHexOf(hex, hash)
    /\ stdout # <<>> =>
          /\ Len(stdout[1][2]) = 2 * SFD_SHA256_LEN
          /\ \A k \in 1..Len(stdout[1][2]) : stdout[1][2][k] \in LowerHexChars
          /\ stdout[1][2] = SubSeq(hex, 1, 2 * SFD_SHA256_LEN)

\* C9 happens: three bytes with digits above 9 have been encoded.
C9_Witness ==
    /\ pc = "hex_done"
    /\ hexIn = <<171, 10, 255>>
    /\ hexOut = <<"a", "b", "0", "a", "f", "f", NUL>>

\* C10: the file is open before the context is created; the context is
\* initialized once, before any update; an update follows a read of n > 0
\* bytes, takes those bytes, and precedes the finalization; the
\* finalization happens at most once, after a read met end-of-file; no
\* update or finalization uses a freed context, no read a closed file; the
\* length check and the copy into out_hash come after both releases.
C10_Protocol ==
    /\ calls.ctx_new >= 1 => calls.fopen = 1 /\ Opened
    /\ calls.init <= 1
    /\ calls.final <= 1
    /\ pc = "ctx_new" => f.state = "open"
    /\ pc = "init" => f.state = "open" /\ ctx.state = "new"
    /\ pc = "fread" => f.state = "open" /\ ctx.state = "init" /\ calls.final = 0
    /\ pc = "update" =>
          /\ n > 0
          /\ PosAdd(buf[1], n) = f.pos /\ buf[2] = n
          /\ calls.init = 1
          /\ ctx.state = "init"
          /\ calls.final = 0
    /\ pc = "final" => f.eof /\ f.state = "open" /\ ctx.state = "init"
    /\ calls.final = 1 => f.eof
    /\ calls.update >= 1 => calls.init = 1
    /\ pc \in {"lencheck", "memcpy"} => f.state = "closed" /\ ctx.state = "freed"
    /\ rc = 0 => f.state = "closed" /\ ctx.state = "freed" /\ calls.final = 1

\* C10 happens: the copy into out_hash after a read, an update and both
\* releases.
C10_Witness ==
    /\ pc = "memcpy"
    /\ calls.update >= 2
    /\ calls.final = 1
    /\ calls.ctx_free = 1
    /\ calls.fclose = 1

==========================================================================
